---- MODULE Spec2Model ----
(***************************************************************************)
(* Learnova AI frontend: the Edu Chat page (ChatPage), the course chat     *)
(* (CourseChat), the multi-file upload form (InlineUpload) and the fetch   *)
(* wrapper lib/api.ts (apiGet / apiPost / apiDelete).                      *)
(*                                                                         *)
(* Text is a sequence of tokens.  Array indexes are 1-based here and       *)
(* 0-based in the source; "no index" is 0 here and -1 / null there.        *)
(* React effects run to completion after every handler, so each action     *)
(* includes the sync and persist effects its state changes trigger.        *)
(***************************************************************************)
EXTENDS Integers, Sequences, FiniteSets, TLC

\* ------------------------------------------------------------- bounds
MaxReq == 2        \* answer requests started on the Edu Chat page
MaxReads == 2      \* reader.read() results carrying a value, per request
MaxChats == 2      \* conversations ever created
MaxCalls == 3      \* calls made through lib/api.ts
MaxAsks == 2       \* questions sent from the course chat
MaxFiles == 2      \* files in one selection
MaxBatches == 2    \* submits of the upload form
MaxAuth == 2       \* login / signup requests sent
MaxRuns == 2       \* deliveries of ingestion jobs

\* ---------------------------------------------------------- variables
VARIABLES
  \* browser state shared by all pages
  jwt,           \* localStorage 'jwt'
  location,      \* window.location pathname
  \* lib/api.ts callers
  net,           \* requests handed to fetch() and not yet settled
  ncalls,        \* api calls made so far
  apiOut,        \* how the last settled api promise ended
  \* CourseChat
  cInput,        \* useState(''): the question box
  cLoading,      \* useState(false)
  cHistory,      \* useState([]): entries {id?, q, a, open}
  askPending,    \* the /rag/chat call in flight, with the input it captured
  fetchPending,  \* number of fetchHistory calls in flight
  delPending,    \* removeItem calls in flight
  nasks,         \* questions sent so far
  srvItems,      \* the backend's stored exchanges of this course, newest first
  \* InlineUpload
  files,         \* useState<File[]>([])
  uploading,     \* useState(false)
  batch,         \* the `files` array onSubmit iterates over
  upIdx,         \* position of the loop in `batch`, 0 when no loop runs
  attempted,     \* history variable: positions of `batch` handed to fetch()
  nbatches,      \* submits so far
  refreshes      \* calls of onUploaded()

authVars == <<jwt, location>>
apiVars == <<net, ncalls, apiOut>>
courseVars == <<cInput, cLoading, cHistory, askPending, fetchPending, delPending,
                nasks, srvItems>>
uploadVars == <<files, uploading, batch, upIdx, attempted, nbatches, refreshes>>

\* ------------------------------------------------------------ helpers
Range(s) == {s[i] : i \in 1..Len(s)}

RECURSIVE SelectIdx(_, _, _)
\* Array.prototype.filter with an index predicate: keep s[i] for i in keep
SelectIdx(s, keep, i) ==
  IF i > Len(s) THEN <<>>
  ELSE (IF i \in keep THEN <<s[i]>> ELSE <<>>) \o SelectIdx(s, keep, i + 1)

RECURSIVE TrimLeft(_)
TrimLeft(s) == IF s # <<>> /\ Head(s) = " " THEN TrimLeft(Tail(s)) ELSE s
RECURSIVE TrimRight(_)
TrimRight(s) ==
  IF s # <<>> /\ s[Len(s)] = " " THEN TrimRight(SubSeq(s, 1, Len(s) - 1)) ELSE s
\* String.prototype.trim
Trim(s) == TrimRight(TrimLeft(s))

\* ============================================================ Edu Chat
VARIABLES
  history,       \* useState<Msg[]>: the displayed conversation
  chats,         \* useState<Chat[]>
  currentId,     \* useState<string>: id of the displayed conversation
  editingIndex,  \* useState<number|null>
  loading,       \* useState(false)
  abortRef,      \* abortRef.current: the request whose controller it holds
  nreq,          \* number of streamFromMessages calls so far
  rpc,           \* per request: where its async function stands
  rmsgs,         \* per request: the `messages` argument
  rreads,        \* per request: reads that carried a value
  rfb,           \* per request: blocking calls made to /chat/edu
  rtext,         \* history variable: the text the request has received
  store,         \* localStorage 'edu_chats' (the parsed JSON value)
  storeCur,      \* localStorage 'edu_chats_current'
  nextChatId,    \* the next value of String(Date.now())
  stopped,       \* history variable: stop() hit an in-flight request and no
                 \* request has been started since
  cancelledMsg,  \* history variable: assistant messages whose stream was aborted
  writers        \* history variable: requests whose text is in the last
                 \* assistant message of `history`

\* RootLayout and the login / signup pages
VARIABLES
  gatedFor,      \* the pathname the auth gate effect last ran with
  authPending,   \* login / signup requests in flight, sent by the mounted page
  nauth,         \* login / signup requests sent so far
  lastNav,       \* history variable: what last changed the location
  authLoading,   \* LoginPage / SignupPage useState(false): loading
  authError,     \* LoginPage / SignupPage useState<string | null>(null): error
  authOrphans,   \* requests in flight whose page has been unmounted
  lastAuth       \* history variable: the auth response last handled

\* CourseDetail: the tab bar
VARIABLES
  courseId,      \* useParams().id: the course whose page is mounted
  tabParam,      \* searchParams.get('tab') || ''
  tab,           \* useState<TabKey>('materials')
  tabStore,      \* localStorage 'course_tab:<id>', per course id
  tabEffects,    \* effects not yet run: "mount", "persist" or "none"
  savedAtOpen,   \* history variable: the stored tab of the course when the page opened
  tabClicked     \* history variable: a tab button was clicked since the page opened

\* Ingestion Pipeline, relational store and Vector Index (backend)
VARIABLES
  sources,       \* relational store: Source rows, the row's position is its id
  chunkRows,     \* relational store: Chunk rows <<source id, ordinal>>
  vindex,        \* Vector Index: records keyed by chunk id
  runs,          \* executions of ingest(source), one per job delivery
  nruns,         \* deliveries so far
  lastSearch     \* the last search request and its response

\* RootLayout (theme, sidebar) and SettingsPage
VARIABLES
  layoutFile,    \* which of the two RootLayout sources is built
  theme,         \* RootLayout useState<'dark'|'light'>('dark')
  docLight,      \* document.documentElement.classList.contains('light')
  themeStore,    \* localStorage 'theme'
  setAppTheme,   \* window.setAppTheme is defined
  settingsTheme, \* SettingsPage useState theme, NoTheme while it is not mounted
  sidebarOpen,   \* RootLayout useState<boolean>(true)
  sidebarStore,  \* localStorage 'sidebarOpen'
  menuOpen,      \* RootLayout useState(false): the user menu
  layoutEffects, \* effects not yet run: "mount", "rerender" or "none"
  lastTheme,     \* history variable: the theme last chosen
  lastSidebar,   \* history variable: the sidebar state the user last left
  reloaded       \* history variable: the document was reloaded after a choice

\* KebabMenu
VARIABLES
  kebabOpen,     \* KebabMenu useState(false)
  pos,           \* useState<Pos | null>(null): NoPos or <<[top, left]>>
  rect,          \* anchorRef.current.getBoundingClientRect(): right, bottom
  innerWidth,    \* window.innerWidth
  innerHeight    \* window.innerHeight

kebabVars == <<kebabOpen, pos, rect, innerWidth, innerHeight>>
gateVars == <<gatedFor, authPending, nauth, lastNav, authLoading, authError, authOrphans,
              lastAuth>>
layoutVars == <<layoutFile, theme, docLight, themeStore, setAppTheme, settingsTheme,
                sidebarOpen, sidebarStore, menuOpen, layoutEffects, lastTheme, lastSidebar,
                reloaded>>
ingestVars == <<sources, chunkRows, vindex, runs, nruns, lastSearch>>
tabVars == <<courseId, tabParam, tab, tabStore, tabEffects, savedAtOpen, tabClicked>>
restVars == <<gateVars, tabVars, ingestVars, layoutVars, kebabVars>>

eduVars == <<history, chats, currentId, editingIndex, loading, abortRef, nreq,
             rpc, rmsgs, rreads, rfb, rtext, store, storeCur, nextChatId,
             stopped, cancelledMsg, writers>>

vars == <<authVars, apiVars, courseVars, uploadVars, eduVars, restVars>>
\* the Edu Chat page touches nothing outside its own state
EduOnly == UNCHANGED <<authVars, apiVars, courseVars, uploadVars, restVars>>

NoId == 0          \* the empty string id '' / abortRef.current === null
NoIndex == 0       \* editingIndex === null, lastUserIndex === -1

UserMsg(t) == [role |-> "user", content |-> t]
AssistantMsg(t) == [role |-> "assistant", content |-> t]
Placeholder == AssistantMsg(<<>>)
ContinueText == <<"Continue.">>
ErrText == <<"Error">>

Questions == {<<" ">>, <<"q", " ">>}        \* what the input box may hold
Chunks == {<<>>, <<"x">>}                   \* decoder.decode(value) results
Answers == {<<>>, <<"A">>}                  \* data.response || ''

NewChat(id) == [id |-> id, name |-> "New chat", messages |-> <<>>]

\* for(i=length-1;i>=0;i--) if(h[i].role===role) return i; return -1
LastIndexOf(h, role) ==
  LET S == {i \in 1..Len(h) : h[i].role = role}
  IN IF S = {} THEN NoIndex ELSE CHOOSE i \in S : \A j \in S : j <= i
lastUserIndex == LastIndexOf(history, "user")
lastAssistantIndex == LastIndexOf(history, "assistant")

\* the updater of lines 186-190 and 197: append to the last assistant message
AppendLastAssistant(h, t) ==
  LET i == LastIndexOf(h, "assistant")
  IN IF i = NoIndex THEN h ELSE [h EXCEPT ![i] = AssistantMsg(h[i].content \o t)]

\* the updater of line 175: overwrite the last assistant message
ReplaceLastAssistant(h, a) ==
  LET i == LastIndexOf(h, "assistant")
  IN IF i = NoIndex THEN h ELSE [h EXCEPT ![i] = AssistantMsg(a)]

\* sync effect: prev.map(c => c.id === currentId ? {...c, messages: history} : c)
SyncChats(cs, cid, h) ==
  [i \in 1..Len(cs) |-> IF cs[i].id = cid THEN [cs[i] EXCEPT !.messages = h] ELSE cs[i]]

\* JSON.stringify(chats) followed by JSON.parse: own properties id, name, messages
Stringify(cs) ==
  [i \in 1..Len(cs) |->
     [id |-> cs[i].id, name |-> cs[i].name,
      messages |-> [j \in 1..Len(cs[i].messages) |->
                      [role |-> cs[i].messages[j].role,
                       content |-> cs[i].messages[j].content]]]]

\* A render with the given state followed by the sync and persist effects.
Render(h, cid, cs) ==
  LET synced == SyncChats(cs, cid, h) IN
  /\ history' = h
  /\ currentId' = cid
  /\ chats' = synced
  /\ store' = IF Len(synced) > 0 THEN Stringify(synced) ELSE store
  /\ storeCur' = IF cid # NoId THEN cid ELSE storeCur

InFlight == {r \in 1..MaxReq : rpc[r] \in {"fetch", "read", "fallback"}}

\* abortRef.current?.abort(): only the streaming fetch carries the signal
\* (line 169); the blocking call of line 172 is made without it.
Abortable(r) == r # NoId /\ rpc[r] \in {"fetch", "read"}
AbortCurrent(p) ==
  IF Abortable(abortRef) THEN [p EXCEPT ![abortRef] = "cancelled"] ELSE p
\* The aborted request rejects with AbortError: catch appends nothing and
\* finally runs setLoading(false), after the aborting handler's own updates.
LoadingAfterAbort(l) == IF Abortable(abortRef) THEN FALSE ELSE l

\* The aborted request's async function returns: its locals are gone.
Dropped(f, empty) == IF Abortable(abortRef) THEN [f EXCEPT ![abortRef] = empty] ELSE f
AbortLocals ==
  /\ rreads' = Dropped(rreads, 0)
  /\ rfb' = Dropped(rfb, 0)
  /\ rtext' = Dropped(rtext, <<>>)

CancelledNow ==
  IF Abortable(abortRef) /\ lastAssistantIndex # NoIndex
  THEN {[chat |-> currentId, idx |-> lastAssistantIndex,
         text |-> history[lastAssistantIndex].content]}
  ELSE {}

InitEdu ==
  /\ history = <<>>
  /\ chats = <<NewChat(1)>>
  /\ currentId = 1
  /\ editingIndex = NoIndex
  /\ loading = FALSE
  /\ abortRef = NoId
  /\ nreq = 0
  /\ rpc = [r \in 1..MaxReq |-> "unused"]
  /\ rmsgs = [r \in 1..MaxReq |-> <<>>]
  /\ rreads = [r \in 1..MaxReq |-> 0]
  /\ rfb = [r \in 1..MaxReq |-> 0]
  /\ rtext = [r \in 1..MaxReq |-> <<>>]
  /\ store = Stringify(<<NewChat(1)>>)
  /\ storeCur = 1
  /\ nextChatId = 2
  /\ stopped = FALSE
  /\ cancelledMsg = {}
  /\ writers = {}

\* streamFromMessages up to its first await
StreamFromMessages(messages) ==
  /\ nreq < MaxReq
  /\ nreq' = nreq + 1
  /\ loading' = LoadingAfterAbort(TRUE)
  /\ rpc' = [AbortCurrent(rpc) EXCEPT ![nreq + 1] = "fetch"]
  /\ abortRef' = nreq + 1
  /\ rmsgs' = [Dropped(rmsgs, <<>>) EXCEPT ![nreq + 1] = messages]
  /\ AbortLocals
  /\ Render(messages \o <<Placeholder>>, currentId, chats)
  /\ stopped' = FALSE
  /\ writers' = {}
  /\ cancelledMsg' =
       {g \in cancelledMsg :
          g.chat # currentId
          \/ (g.idx <= Len(messages) /\ messages[g.idx] = AssistantMsg(g.text))}
  /\ UNCHANGED nextChatId

\* ask(); the form submits only when !loading (line 382)
Ask(question) ==
  /\ EduOnly
  /\ ~loading
  /\ LET q == Trim(question) IN
     IF q = <<>> THEN UNCHANGED eduVars
     ELSE /\ editingIndex' = NoIndex
          /\ IF editingIndex # NoIndex
             THEN LET tmp == [i \in 1..Len(history) |->
                                IF i = editingIndex THEN UserMsg(q) ELSE history[i]]
                      drop == {i \in 1..Len(tmp) :
                                 i = editingIndex + 1 /\ tmp[i].role = "assistant"}
                  IN StreamFromMessages(SelectIdx(tmp, (1..Len(tmp)) \ drop, 1))
             ELSE StreamFromMessages(history \o <<UserMsg(q)>>)

\* regenerate(); the button exists under the last assistant message
Regenerate ==
  /\ EduOnly
  /\ lastAssistantIndex # NoIndex
  /\ IF lastUserIndex = NoIndex THEN UNCHANGED eduVars
     ELSE /\ StreamFromMessages(
               SelectIdx(history, (1..Len(history)) \ {lastAssistantIndex}, 1))
          /\ UNCHANGED editingIndex

\* continueAnswer(); same button row as regenerate
ContinueAnswer ==
  /\ EduOnly
  /\ lastAssistantIndex # NoIndex
  /\ StreamFromMessages(history \o <<UserMsg(ContinueText)>>)
  /\ UNCHANGED editingIndex

\* onEditLast(); the button exists under the last user message
OnEditLast ==
  /\ EduOnly
  /\ lastUserIndex # NoIndex
  /\ editingIndex' = lastUserIndex
  /\ UNCHANGED <<history, chats, currentId, loading, abortRef, nreq, rpc, rmsgs,
                 rreads, rfb, rtext, store, storeCur, nextChatId, stopped,
                 cancelledMsg, writers>>

\* stop(); the button exists while loading
Stop ==
  /\ EduOnly
  /\ loading
  /\ rpc' = AbortCurrent(rpc)
  /\ loading' = LoadingAfterAbort(loading)
  /\ stopped' = (abortRef \in InFlight)
  /\ cancelledMsg' = cancelledMsg \cup CancelledNow
  /\ rmsgs' = Dropped(rmsgs, <<>>)
  /\ AbortLocals
  /\ UNCHANGED <<history, chats, currentId, editingIndex, abortRef, nreq, store,
                 storeCur, nextChatId, writers>>

\* switchChat(id)
SwitchChat(id) ==
  /\ EduOnly
  /\ id # currentId
  /\ \E c \in Range(chats) : c.id = id
  /\ rpc' = AbortCurrent(rpc)
  /\ loading' = LoadingAfterAbort(loading)
  /\ LET cur == CHOOSE c \in Range(chats) : c.id = id
     IN Render(cur.messages, id, chats)
  /\ editingIndex' = NoIndex
  /\ cancelledMsg' = cancelledMsg \cup CancelledNow
  /\ writers' = {}
  /\ rmsgs' = Dropped(rmsgs, <<>>)
  /\ AbortLocals
  /\ UNCHANGED <<abortRef, nreq, nextChatId, stopped>>

\* newConversation(); the button is disabled while loading
NewConversation ==
  /\ EduOnly
  /\ ~loading
  /\ nextChatId <= MaxChats
  /\ rpc' = AbortCurrent(rpc)
  /\ loading' = LoadingAfterAbort(loading)
  /\ Render(<<>>, nextChatId, <<NewChat(nextChatId)>> \o chats)
  /\ nextChatId' = nextChatId + 1
  /\ editingIndex' = NoIndex
  /\ cancelledMsg' = cancelledMsg \cup CancelledNow
  /\ writers' = {}
  /\ rmsgs' = Dropped(rmsgs, <<>>)
  /\ AbortLocals
  /\ UNCHANGED <<abortRef, nreq, stopped>>

\* the Delete button (lines 341-356)
DeleteChat ==
  /\ EduOnly
  /\ currentId # NoId
  /\ LET filtered == SelectIdx(chats, {i \in 1..Len(chats) : chats[i].id # currentId}, 1)
     IN IF filtered = <<>>
        THEN /\ nextChatId <= MaxChats
             /\ Render(<<>>, nextChatId, <<NewChat(nextChatId)>>)
             /\ nextChatId' = nextChatId + 1
        ELSE /\ Render(filtered[1].messages, filtered[1].id, filtered)
             /\ UNCHANGED nextChatId
  /\ rpc' = AbortCurrent(rpc)
  /\ loading' = LoadingAfterAbort(loading)
  /\ cancelledMsg' = {g \in cancelledMsg : g.chat # currentId}
  /\ writers' = {}
  /\ rmsgs' = Dropped(rmsgs, <<>>)
  /\ AbortLocals
  /\ UNCHANGED <<editingIndex, abortRef, nreq, stopped>>

\* renameCurrent(): window.prompt returns the typed name, '' or null
PromptResults == {"", "n"}
RenameCurrent(nn) ==
  /\ EduOnly
  /\ currentId # NoId
  /\ \E c \in Range(chats) : c.id = currentId
  /\ Render(history, currentId,
            [i \in 1..Len(chats) |->
               IF chats[i].id = currentId /\ nn # ""
               THEN [chats[i] EXCEPT !.name = nn] ELSE chats[i]])
  /\ UNCHANGED <<editingIndex, loading, abortRef, nreq, rpc, rmsgs, rreads, rfb, rtext,
                 nextChatId, stopped, cancelledMsg, writers>>

\* what the mount effect (lines 106-125) restores from a stored list
\* mutant: the saved current id is ignored
MountCurrentFirst(parsed, savedCur) ==
  IF parsed # <<>> THEN parsed[1].id ELSE NoId
MountCurrent(parsed, savedCur) ==
  IF savedCur # NoId THEN savedCur
  ELSE IF parsed # <<>> THEN parsed[1].id ELSE NoId
MountHistory(parsed, cid) ==
  IF \E c \in Range(parsed) : c.id = cid
  THEN (CHOOSE c \in Range(parsed) : c.id = cid).messages
  ELSE <<>>

\* the page is reloaded: the document's requests end with it, the component
\* state starts from its defaults and the mount, sync and persist effects run
Reload ==
  /\ EduOnly
  /\ LET cid == MountCurrent(store, storeCur)
     IN Render(MountHistory(store, cid), cid, store)
  /\ rpc' = [r \in 1..MaxReq |-> IF r \in InFlight THEN "cancelled" ELSE rpc[r]]
  /\ rmsgs' = [r \in 1..MaxReq |-> IF r \in InFlight THEN <<>> ELSE rmsgs[r]]
  /\ rreads' = [r \in 1..MaxReq |-> IF r \in InFlight THEN 0 ELSE rreads[r]]
  /\ rfb' = [r \in 1..MaxReq |-> IF r \in InFlight THEN 0 ELSE rfb[r]]
  /\ rtext' = [r \in 1..MaxReq |-> IF r \in InFlight THEN <<>> ELSE rtext[r]]
  /\ loading' = FALSE
  /\ abortRef' = NoId
  /\ editingIndex' = NoIndex
  /\ stopped' = FALSE
  /\ writers' = {}
  /\ cancelledMsg' = cancelledMsg \cup CancelledNow
  /\ UNCHANGED <<nreq, nextChatId>>

\* the streaming fetch resolves (lines 165-171, 177-179)
StreamResponse(r, ok, hasBody) ==
  /\ EduOnly
  /\ rpc[r] = "fetch"
  /\ IF ~ok \/ ~hasBody
     THEN /\ rpc' = [rpc EXCEPT ![r] = "fallback"]
          /\ rfb' = [rfb EXCEPT ![r] = @ + 1]
     ELSE /\ rpc' = [rpc EXCEPT ![r] = "read"]
          /\ UNCHANGED rfb
  /\ UNCHANGED <<history, chats, currentId, editingIndex, loading, abortRef, nreq,
                 rmsgs, rreads, rtext, store, storeCur, nextChatId, stopped,
                 cancelledMsg, writers>>

\* The async function of request r has returned: its locals are gone.
Forget(r) ==
  /\ rmsgs' = [rmsgs EXCEPT ![r] = <<>>]
  /\ rreads' = [rreads EXCEPT ![r] = 0]
  /\ rfb' = [rfb EXCEPT ![r] = 0]
  /\ rtext' = [rtext EXCEPT ![r] = <<>>]

\* catch (a = err.message || 'Error') and finally, for an error that is no abort
FailWith(r) ==
  /\ rpc' = [rpc EXCEPT ![r] = "failed"]
  /\ Render(AppendLastAssistant(history, ErrText), currentId, chats)
  /\ writers' = IF lastAssistantIndex # NoIndex THEN writers \cup {r} ELSE writers
  /\ loading' = FALSE
  /\ Forget(r)
  /\ UNCHANGED <<editingIndex, abortRef, nreq, nextChatId, stopped, cancelledMsg>>

\* the streaming fetch rejects (network error)
FetchFail(r) == EduOnly /\ rpc[r] = "fetch" /\ FailWith(r)

\* reader.read() yields a value (lines 181-192)
ReadChunk(r, chunk) ==
  /\ EduOnly
  /\ rpc[r] = "read"
  /\ rreads[r] < MaxReads
  /\ rreads' = [rreads EXCEPT ![r] = @ + 1]
  /\ rtext' = [rtext EXCEPT ![r] = @ \o chunk]
  /\ IF chunk # <<>>
     THEN /\ Render(AppendLastAssistant(history, chunk), currentId, chats)
          /\ writers' = IF lastAssistantIndex # NoIndex THEN writers \cup {r} ELSE writers
     ELSE UNCHANGED <<history, chats, currentId, store, storeCur, writers>>
  /\ UNCHANGED <<editingIndex, loading, abortRef, nreq, rpc, rmsgs, rfb, nextChatId,
                 stopped, cancelledMsg>>

\* reader.read() yields done: the loop ends, finally runs
ReadDone(r) ==
  /\ EduOnly
  /\ rpc[r] = "read"
  /\ rpc' = [rpc EXCEPT ![r] = "done"]
  /\ loading' = FALSE
  /\ Forget(r)
  /\ UNCHANGED <<history, chats, currentId, editingIndex, abortRef, nreq, store,
                 storeCur, nextChatId, stopped, cancelledMsg, writers>>

\* reader.read() rejects with an error that is no abort
ReadFail(r) == EduOnly /\ rpc[r] = "read" /\ FailWith(r)

\* the blocking call resolves (lines 172-175), finally runs
FallbackReturn(r, a) ==
  /\ EduOnly
  /\ rpc[r] = "fallback"
  /\ rpc' = [rpc EXCEPT ![r] = "done"]
  /\ rmsgs' = [rmsgs EXCEPT ![r] = <<>>]
  /\ rreads' = [rreads EXCEPT ![r] = 0]
  /\ rfb' = [rfb EXCEPT ![r] = 0]
  /\ rtext' = [rtext EXCEPT ![r] = a]
  /\ Render(ReplaceLastAssistant(history, a), currentId, chats)
  /\ writers' = IF lastAssistantIndex = NoIndex THEN writers
                ELSE IF a = <<>> THEN {} ELSE {r}
  /\ loading' = FALSE
  /\ UNCHANGED <<editingIndex, abortRef, nreq, nextChatId, stopped, cancelledMsg>>

\* the blocking call rejects, or its body is no JSON
FallbackFail(r) == EduOnly /\ rpc[r] = "fallback" /\ FailWith(r)

NextEdu ==
  \/ \E q \in Questions : Ask(q)
  \/ Regenerate
  \/ ContinueAnswer
  \/ OnEditLast
  \/ Stop
  \/ \E id \in 1..MaxChats : SwitchChat(id)
  \/ NewConversation
  \/ DeleteChat
  \/ \E nn \in PromptResults : RenameCurrent(nn)
  \/ Reload
  \/ \E r \in 1..MaxReq, ok \in BOOLEAN, hasBody \in BOOLEAN : StreamResponse(r, ok, hasBody)
  \/ \E r \in 1..MaxReq : FetchFail(r)
  \/ \E r \in 1..MaxReq, c \in Chunks : ReadChunk(r, c)
  \/ \E r \in 1..MaxReq : ReadDone(r)
  \/ \E r \in 1..MaxReq : ReadFail(r)
  \/ \E r \in 1..MaxReq, a \in Answers : FallbackReturn(r, a)
  \/ \E r \in 1..MaxReq : FallbackFail(r)


\* ========================================================== lib/api.ts
NoJwt == ""                      \* localStorage.getItem('jwt') is null (falsy)
Tokens == {"t1", "t2"}
Statuses == {200, 401, 500}
Paths == {<<"/", "x">>, <<"x">>}
Bodies == {<<"b">>}
Payloads == {"p"}
EmptyObj == <<>>                 \* {} / undefined
HasWindow == TRUE                \* typeof window !== 'undefined': client components
\* init arguments a caller may pass to apiPost
Inits == {EmptyObj, "signal" :> <<"s">>, "headers" :> ("X-Trace" :> <<"1">>)}

Ok(status) == status >= 200 /\ status <= 299          \* Response.ok
Spread(a, b) == b @@ a                                \* {...a, ...b}
Bearer(token) == <<"Bearer ", token>>                 \* `Bearer ${token}`
JsonOf(body) == <<"json:">> \o body                   \* JSON.stringify(body)
StripSlash(path) ==                                   \* path.replace(/^\//,'')
  IF path # <<>> /\ Head(path) = "/" THEN Tail(path) ELSE path
Url(path) == <<"API_BASE", "/">> \o StripSlash(path)

authHeaders ==
  IF ~HasWindow THEN EmptyObj
  ELSE IF jwt # NoJwt THEN "Authorization" :> Bearer(jwt) ELSE EmptyObj

\* what each helper hands to fetch()
apiGetRequest(path) ==
  [url |-> Url(path), init |-> "headers" :> Spread(EmptyObj, authHeaders)]
apiPostRequest(path, body, init) ==
  [url |-> Url(path),
   init |-> Spread(("method" :> <<"POST">>)
                   @@ ("headers" :> Spread("Content-Type" :> <<"application/json">>,
                                           authHeaders))
                   @@ ("body" :> JsonOf(body)),
                   init)]
apiDeleteRequest(path) ==
  [url |-> Url(path),
   init |-> ("method" :> <<"DELETE">>) @@ ("headers" :> Spread(EmptyObj, authHeaders))]

\* what each helper does with the response: the new jwt and location, and
\* how its promise settles
apiGetSettle(status, payload) ==
  IF status = 401 /\ HasWindow
  THEN [jwt |-> NoJwt, location |-> "/login", kind |-> "rejected", value |-> "Unauthorized"]
  ELSE IF ~Ok(status)
  THEN [jwt |-> jwt, location |-> location, kind |-> "rejected", value |-> payload]
  ELSE [jwt |-> jwt, location |-> location, kind |-> "resolved", value |-> payload]
apiPostSettle(status, payload) ==
  IF status = 401 /\ HasWindow
  THEN [jwt |-> NoJwt, location |-> "/login", kind |-> "rejected", value |-> "Unauthorized"]
  ELSE IF ~Ok(status)
  THEN [jwt |-> jwt, location |-> location, kind |-> "rejected", value |-> payload]
  ELSE [jwt |-> jwt, location |-> location, kind |-> "resolved", value |-> payload]
\* mutant: the 401 branch is missing
apiDeleteSettleNo401(status, payload) ==
  IF ~Ok(status)
  THEN [jwt |-> jwt, location |-> location, kind |-> "rejected", value |-> payload]
  ELSE [jwt |-> jwt, location |-> location, kind |-> "resolved", value |-> payload]
apiDeleteSettle(status, payload) ==
  IF status = 401 /\ HasWindow
  THEN [jwt |-> NoJwt, location |-> "/login", kind |-> "rejected", value |-> "Unauthorized"]
  ELSE IF ~Ok(status)
  THEN [jwt |-> jwt, location |-> location, kind |-> "rejected", value |-> payload]
  ELSE [jwt |-> jwt, location |-> location, kind |-> "resolved", value |-> payload]

ApiOnly == UNCHANGED <<courseVars, uploadVars, eduVars, restVars>>

NoOut == [id |-> 0, fn |-> "", status |-> 0, payload |-> "", jwtBefore |-> NoJwt,
          locationBefore |-> "", kind |-> "", value |-> ""]

InitApi == net = {} /\ ncalls = 0 /\ apiOut = NoOut

\* a caller invokes a helper: the request leaves with the headers built now
Call(fn, req) ==
  /\ ApiOnly
  /\ ncalls < MaxCalls
  /\ ncalls' = ncalls + 1
  /\ net' = net \cup {[id |-> ncalls + 1, fn |-> fn, jwtAtCall |-> jwt, req |-> req]}
  /\ UNCHANGED <<jwt, location, apiOut>>
CallApiGet(path) == Call("apiGet", apiGetRequest(path))
CallApiPost(path, body, init) == Call("apiPost", apiPostRequest(path, body, init))
CallApiDelete(path) == Call("apiDelete", apiDeleteRequest(path))

\* the response of call c arrives
Settle(c, status, payload, s) ==
  /\ ApiOnly
  /\ c \in net
  /\ net' = net \ {c}
  /\ jwt' = s.jwt
  /\ location' = s.location
  /\ apiOut' = [id |-> c.id, fn |-> c.fn, status |-> status, payload |-> payload,
                jwtBefore |-> jwt, locationBefore |-> location,
                kind |-> s.kind, value |-> s.value]
  /\ UNCHANGED ncalls
SettleApiGet(c, status, payload) ==
  c.fn = "apiGet" /\ Settle(c, status, payload, apiGetSettle(status, payload))
SettleApiPost(c, status, payload) ==
  c.fn = "apiPost" /\ Settle(c, status, payload, apiPostSettle(status, payload))
SettleApiDelete(c, status, payload) ==
  c.fn = "apiDelete" /\ Settle(c, status, payload, apiDeleteSettle(status, payload))

\* fetch() itself rejects (network error): the helper rejects with that error
FailApi(c) ==
  /\ ApiOnly
  /\ c \in net
  /\ net' = net \ {c}
  /\ apiOut' = [id |-> c.id, fn |-> c.fn, status |-> 0, payload |-> "",
                jwtBefore |-> jwt, locationBefore |-> location,
                kind |-> "rejected", value |-> "Failed to fetch"]
  /\ UNCHANGED <<jwt, location, ncalls>>

NextApi ==
  \/ \E p \in Paths : CallApiGet(p)
  \/ \E p \in Paths, b \in Bodies, i \in Inits : CallApiPost(p, b, i)
  \/ \E p \in Paths : CallApiDelete(p)
  \/ \E c \in net, st \in Statuses, pl \in Payloads : SettleApiGet(c, st, pl)
  \/ \E c \in net, st \in Statuses, pl \in Payloads : SettleApiPost(c, st, pl)
  \/ \E c \in net, st \in Statuses, pl \in Payloads : SettleApiDelete(c, st, pl)
  \/ \E c \in net : FailApi(c)

\* ========================================================== CourseChat
NoEntryId == 0                   \* an entry without id (id undefined)
Visible == 10                    \* useState(10): entries rendered
HistoryLimit == 100              \* limit=100 of the history request
ErrPrefix == <<"Error: ">>
Inputs == {<<" ">>, <<"q">>}
RagChatPath == <<"/", "rag/chat">>

CourseOnly == UNCHANGED <<apiVars, uploadVars, eduVars, restVars>>

Entry(id, q, a, open) == [id |-> id, q |-> q, a |-> a, open |-> open]
\* (res.items||[]).map((m, idx) => ({...m, open: idx === 0}))
OpenFirst(items) ==
  [i \in 1..Len(items) |-> Entry(items[i].id, items[i].q, items[i].a, i = 1)]
\* [{q, a, t, open: true}, ...h.map(i => ({...i, open: false}))]
Prepend(h, q, a) ==
  <<Entry(NoEntryId, q, a, TRUE)>> \o [i \in 1..Len(h) |-> [h[i] EXCEPT !.open = FALSE]]
\* mutant: the filter keeps the entry it should remove
RemoveItemInverted(list, itemId) ==
  SelectIdx(list, {i \in 1..Len(list) : list[i].id = itemId}, 1)
\* list.filter(it => it.id !== itemId)
RemoveItem(list, itemId) ==
  SelectIdx(list, {i \in 1..Len(list) : list[i].id # itemId}, 1)
\* list.map((it, idx) => idx === i ? {...it, open: !it.open} : it)
Toggle(list, i) ==
  [idx \in 1..Len(list) |-> IF idx = i THEN [list[idx] EXCEPT !.open = ~@] ELSE list[idx]]

\* The backend: it stores an exchange once the answer is produced, lists the
\* stored exchanges newest first, and deletes one by id.
SrvRecord(items, id, q, a) == <<[id |-> id, q |-> q, a |-> a]>> \o items
SrvList(items) == SubSeq(items, 1, IF Len(items) < HistoryLimit THEN Len(items) ELSE HistoryLimit)
SrvDelete(items, id) == SelectIdx(items, {i \in 1..Len(items) : items[i].id # id}, 1)

InitCourse ==
  /\ cInput = <<>>
  /\ cLoading = FALSE
  /\ cHistory = <<>>
  /\ askPending = <<>>
  /\ fetchPending = 1             \* fetchHistory(true) of the mount effect
  /\ delPending = {}
  /\ nasks = 0
  /\ srvItems = <<[id |-> 1, q |-> <<"q0">>, a |-> <<"A0">>]>>

\* the learner types into the question box
TypeInput(v) ==
  /\ CourseOnly
  /\ cInput' = v
  /\ UNCHANGED <<authVars, cLoading, cHistory, askPending, fetchPending, delPending,
                 nasks, srvItems>>

\* ask() up to its await; the submit button is disabled while loading
CourseAsk ==
  /\ CourseOnly
  /\ ~cLoading
  /\ IF Trim(cInput) = <<>> THEN UNCHANGED <<authVars, courseVars>>
     ELSE /\ nasks < MaxAsks
          /\ nasks' = nasks + 1
          /\ cLoading' = TRUE
          /\ askPending' = <<[q |-> cInput,
                              req |-> apiPostRequest(RagChatPath, cInput, EmptyObj)]>>
          /\ UNCHANGED <<authVars, cInput, cHistory, fetchPending, delPending, srvItems>>

\* /rag/chat answers 200: the try branch and finally
AskResolve(answer) ==
  /\ CourseOnly
  /\ askPending # <<>>
  /\ LET s == apiPostSettle(200, "p") IN
     /\ jwt' = s.jwt
     /\ location' = s.location
  /\ srvItems' = SrvRecord(srvItems, nasks + 1, askPending[1].q, answer)
  /\ cHistory' = Prepend(cHistory, askPending[1].q, answer)
  /\ cInput' = <<>>
  /\ fetchPending' = fetchPending + 1       \* fetchHistory(false)
  /\ cLoading' = FALSE
  /\ askPending' = <<>>
  /\ UNCHANGED <<delPending, nasks>>

\* mutant: the catch branch swallows the error
AskRejectSwallowed(status, text) ==
  /\ CourseOnly
  /\ askPending # <<>>
  /\ ~Ok(status)
  /\ LET s == apiPostSettle(status, text) IN
     /\ jwt' = s.jwt
     /\ location' = s.location
  /\ cLoading' = FALSE
  /\ askPending' = <<>>
  /\ UNCHANGED <<cInput, cHistory, fetchPending, delPending, nasks, srvItems>>

\* /rag/chat answers non-OK: apiPost throws, the catch branch and finally
AskReject(status, text) ==
  /\ CourseOnly
  /\ askPending # <<>>
  /\ ~Ok(status)
  /\ LET s == apiPostSettle(status, text) IN
     /\ jwt' = s.jwt
     /\ location' = s.location
     /\ cHistory' = Prepend(cHistory, askPending[1].q, ErrPrefix \o <<s.value>>)
  /\ cLoading' = FALSE
  /\ askPending' = <<>>
  /\ UNCHANGED <<cInput, fetchPending, delPending, nasks, srvItems>>

\* fetch() itself rejects: the catch branch and finally
AskNetworkError ==
  /\ CourseOnly
  /\ askPending # <<>>
  /\ cHistory' = Prepend(cHistory, askPending[1].q, ErrPrefix \o <<"Failed to fetch">>)
  /\ cLoading' = FALSE
  /\ askPending' = <<>>
  /\ UNCHANGED <<authVars, cInput, fetchPending, delPending, nasks, srvItems>>

\* fetchHistory: the history request answers (setVisible(10) leaves the
\* page size at its initial value: Load More needs more than 10 entries)
FetchHistoryResolve ==
  /\ CourseOnly
  /\ fetchPending > 0
  /\ fetchPending' = fetchPending - 1
  /\ cHistory' = OpenFirst(SrvList(srvItems))
  /\ UNCHANGED <<authVars, cInput, cLoading, askPending, delPending, nasks, srvItems>>

\* fetchHistory: the request or r.json() fails, catch{} swallows it
FetchHistoryReject ==
  /\ CourseOnly
  /\ fetchPending > 0
  /\ fetchPending' = fetchPending - 1
  /\ UNCHANGED <<authVars, cInput, cLoading, cHistory, askPending, delPending, nasks,
                 srvItems>>

\* a click on the <details> of entry i
ToggleEntry(i) ==
  /\ CourseOnly
  /\ i \in 1..Len(cHistory) /\ i <= Visible
  /\ cHistory' = Toggle(cHistory, i)
  /\ UNCHANGED <<authVars, cInput, cLoading, askPending, fetchPending, delPending,
                 nasks, srvItems>>

\* the Delete button of entry i, confirmed: removeItem up to its await
RemoveItemCall(i) ==
  /\ CourseOnly
  /\ i \in 1..Len(cHistory) /\ i <= Visible
  /\ cHistory[i].open
  /\ cHistory[i].id # NoEntryId
  /\ cHistory[i].id \notin delPending
  /\ delPending' = delPending \cup {cHistory[i].id}
  /\ UNCHANGED <<authVars, cInput, cLoading, cHistory, askPending, fetchPending, nasks,
                 srvItems>>

\* the DELETE answers 200
RemoveItemResolve(itemId) ==
  /\ CourseOnly
  /\ itemId \in delPending
  /\ delPending' = delPending \ {itemId}
  /\ LET s == apiDeleteSettle(200, "p") IN
     /\ jwt' = s.jwt
     /\ location' = s.location
  /\ srvItems' = SrvDelete(srvItems, itemId)
  /\ cHistory' = RemoveItem(cHistory, itemId)
  /\ UNCHANGED <<cInput, cLoading, askPending, fetchPending, nasks>>

\* the DELETE answers non-OK: apiDelete throws, catch{} swallows it
RemoveItemReject(itemId, status) ==
  /\ CourseOnly
  /\ itemId \in delPending
  /\ ~Ok(status)
  /\ delPending' = delPending \ {itemId}
  /\ LET s == apiDeleteSettle(status, "p") IN
     /\ jwt' = s.jwt
     /\ location' = s.location
  /\ UNCHANGED <<cInput, cLoading, cHistory, askPending, fetchPending, nasks, srvItems>>

AskSettles ==
  \/ \E a \in Answers : AskResolve(a)
  \/ \E st \in Statuses, t \in Payloads : AskReject(st, t)
  \/ AskNetworkError

NextCourse ==
  \/ \E v \in Inputs : TypeInput(v)
  \/ CourseAsk
  \/ AskSettles
  \/ FetchHistoryResolve
  \/ FetchHistoryReject
  \/ \E i \in 1..(MaxAsks + 1) : ToggleEntry(i)
  \/ \E i \in 1..(MaxAsks + 1) : RemoveItemCall(i)
  \/ \E id \in 1..(MaxAsks + 1) : RemoveItemResolve(id)
  \/ \E id \in 1..(MaxAsks + 1), st \in Statuses : RemoveItemReject(id, st)

\* ======================================================== InlineUpload
Files == {"a", "b"}
FileLists == UNION {[1..n -> Files] : n \in 0..MaxFiles}

UploadOnly == UNCHANGED <<authVars, apiVars, courseVars, eduVars, restVars>>

InitUpload ==
  /\ files = <<>>
  /\ uploading = FALSE
  /\ batch = <<>>
  /\ upIdx = 0
  /\ attempted = {}
  /\ nbatches = 0
  /\ refreshes = 0

\* onChange of the file input
SelectFiles(fs) ==
  /\ UploadOnly
  /\ files' = fs
  /\ UNCHANGED <<uploading, batch, upIdx, attempted, nbatches, refreshes>>

\* onSubmit up to the first await; the button is disabled without files or
\* while uploading
Submit ==
  /\ UploadOnly
  /\ files # <<>> /\ ~uploading
  /\ nbatches < MaxBatches
  /\ nbatches' = nbatches + 1
  /\ uploading' = TRUE
  /\ batch' = files
  /\ upIdx' = 1
  /\ attempted' = {1}
  /\ UNCHANGED <<files, refreshes>>

\* the upload of batch[upIdx] answers OK: next file, or the end of the loop
UploadOk ==
  /\ UploadOnly
  /\ upIdx # 0
  /\ IF upIdx < Len(batch)
     THEN /\ upIdx' = upIdx + 1
          /\ attempted' = attempted \cup {upIdx + 1}
          /\ UNCHANGED <<files, uploading, refreshes>>
     ELSE /\ upIdx' = 0
          /\ refreshes' = refreshes + 1
          /\ files' = <<>>
          /\ uploading' = FALSE
          /\ UNCHANGED attempted
  /\ UNCHANGED <<batch, nbatches>>

\* the upload answers non-OK or fetch rejects: throw, catch, finally
UploadFail ==
  /\ UploadOnly
  /\ upIdx # 0
  /\ upIdx' = 0
  /\ uploading' = FALSE
  /\ UNCHANGED <<files, batch, attempted, nbatches, refreshes>>

NextUpload ==
  \/ \E fs \in FileLists : SelectFiles(fs)
  \/ Submit
  \/ UploadOk
  \/ UploadFail

\* ================================================ RootLayout: auth gate
NoPath == ""                     \* before the effect's first run
Routes == {"/", "/login", "/signup", "/courses"}
publicPaths == {"/login", "/signup"}

ApiHelpers == {"apiGet", "apiPost", "apiDelete"}
GateOnly == UNCHANGED <<apiVars, courseVars, uploadVars, eduVars, tabVars, ingestVars,
                        layoutVars, kebabVars>>

NoError == "null"                \* error === null
\* the requests an auth page sends: its form's and the Google callback's
AuthKinds == {"login", "signup", "google"}
KindsOn(pathname) ==
  IF pathname = "/login" THEN {"login", "google"}
  ELSE IF pathname = "/signup" THEN {"signup", "google"}
  ELSE {}
\* the text of `new Error(data.detail || <default>)`
DefaultError(kind) ==
  CASE kind = "login" -> "Login failed"
    [] kind = "signup" -> "Signup failed"
    [] kind = "google" -> "Google sign-in failed"
\* what fetch gives the handler: a rejection, or a response with a status
\* and a body that is JSON or not; the auth endpoints answer OK with a token
NetworkError == [net |-> FALSE, ok |-> FALSE, json |-> FALSE, token |-> NoJwt, detail |-> ""]
AuthResponses ==
  {NetworkError} \cup
  {r \in [net : {TRUE}, ok : BOOLEAN, json : BOOLEAN, token : Tokens \cup {NoJwt},
          detail : {"", "Invalid credentials"}] :
     /\ (r.ok /\ r.json) <=> r.token # NoJwt
     /\ r.detail # "" => (r.json /\ ~r.ok)}
NoAuth == [n |-> 0, kind |-> "", resp |-> NetworkError, orphan |-> FALSE, errBefore |-> NoError]

InitGate ==
  /\ gatedFor = NoPath /\ authPending = <<>> /\ nauth = 0 /\ lastNav = "address"
  /\ authLoading = FALSE /\ authError = NoError /\ authOrphans = 0 /\ lastAuth = NoAuth

\* a new document: the page's state and its requests are gone
NewDocument ==
  /\ authPending' = <<>> /\ authLoading' = FALSE /\ authError' = NoError
  /\ authOrphans' = 0
SameDocument == UNCHANGED <<authPending, authLoading, authError, authOrphans>>

\* mutant: the gate lets a visitor without jwt stay anywhere
GateTargetOpen(token, pathname) ==
  IF token # NoJwt /\ pathname \in publicPaths THEN "/" ELSE pathname
\* where the auth gate sends a visitor holding `token` on `pathname`
GateTarget(token, pathname) ==
  IF token = NoJwt /\ pathname \notin publicPaths THEN "/login"
  ELSE IF token # NoJwt /\ pathname \in publicPaths THEN "/"
  ELSE pathname

\* useEffect(..., [pathname]): runs after mount and after each pathname
\* change.  Assigning window.location.href loads a new document, in which
\* the effect has not run yet.
AuthGate ==
  /\ GateOnly
  /\ HasWindow
  /\ gatedFor # location
  /\ location' = GateTarget(jwt, location)
  /\ gatedFor' = IF location' # location THEN NoPath ELSE location
  /\ lastNav' = IF location' # location THEN "gate" ELSE lastNav
  /\ IF location' # location THEN NewDocument ELSE SameDocument
  /\ UNCHANGED <<jwt, nauth, lastAuth>>

\* the user menu's Sign out button (rendered off the auth pages, once the
\* jwt has been parsed into `user`)
signOut ==
  /\ GateOnly
  /\ location \notin publicPaths /\ jwt # NoJwt /\ gatedFor = location
  /\ jwt' = NoJwt
  /\ location' = "/login"
  /\ gatedFor' = NoPath
  /\ lastNav' = "signOut"
  /\ NewDocument
  /\ UNCHANGED <<nauth, lastAuth>>

\* a Link click: the pathname changes inside the mounted layout (pending
\* effects are flushed before a click is handled); the page is unmounted,
\* its state is gone and the requests it sent go on without it
RouteChange(p) ==
  /\ GateOnly
  /\ gatedFor = location
  /\ p # location
  /\ location' = p
  /\ lastNav' = "link"
  /\ authOrphans' = authOrphans + Len(authPending)
  /\ authPending' = <<>> /\ authLoading' = FALSE /\ authError' = NoError
  /\ UNCHANGED <<jwt, gatedFor, nauth, lastAuth>>

\* a typed address or a reload: a new document
OpenAddress(p) ==
  /\ GateOnly
  /\ location' = p
  /\ gatedFor' = NoPath
  /\ lastNav' = "address"
  /\ NewDocument
  /\ UNCHANGED <<jwt, nauth, lastAuth>>

\* onLogin / onSignup / the Google callback up to their fetch: the forms
\* clear the error and their submit button is disabled while loading
AuthSubmit(kind) ==
  /\ GateOnly
  /\ location \in publicPaths
  /\ kind \in KindsOn(location)
  /\ kind # "google" => ~authLoading
  /\ nauth < MaxAuth
  /\ nauth' = nauth + 1
  /\ authPending' = Append(authPending, kind)
  /\ authError' = IF kind = "google" THEN authError ELSE NoError
  /\ authLoading' = TRUE
  /\ UNCHANGED <<jwt, location, gatedFor, lastNav, authOrphans, lastAuth>>

\* mutant: the status of the response is not looked at
AuthSettleAnyStatus(kind, resp) ==
  IF ~resp.net THEN [stored |-> FALSE, token |-> NoJwt, error |-> "Failed to fetch"]
  ELSE IF ~resp.json THEN [stored |-> FALSE, token |-> NoJwt, error |-> "Unexpected token"]
  ELSE [stored |-> TRUE,
        token |-> IF resp.token # NoJwt THEN resp.token ELSE "undefined",
        error |-> NoError]
\* the handler after its fetch: res.json(), the res.ok test, setItem
AuthSettle(kind, resp) ==
  IF ~resp.net THEN [stored |-> FALSE, token |-> NoJwt, error |-> "Failed to fetch"]
  ELSE IF ~resp.json THEN [stored |-> FALSE, token |-> NoJwt, error |-> "Unexpected token"]
  ELSE IF ~resp.ok
    THEN [stored |-> FALSE, token |-> NoJwt,
          error |-> IF resp.detail # "" THEN resp.detail ELSE DefaultError(kind)]
  ELSE [stored |-> TRUE, token |-> resp.token, error |-> NoError]

Without(q, i) == SubSeq(q, 1, i - 1) \o SubSeq(q, i + 1, Len(q))
Handled(kind, resp, orphan) ==
  lastAuth' = [n |-> lastAuth.n + 1, kind |-> kind, resp |-> resp, orphan |-> orphan,
               errBefore |-> authError]

\* the request answers OK: the token is stored and the browser sent home
AuthOk(i, resp) ==
  /\ GateOnly
  /\ i \in 1..Len(authPending)
  /\ AuthSettle(authPending[i], resp).stored
  /\ jwt' = AuthSettle(authPending[i], resp).token
  /\ location' = "/"
  /\ gatedFor' = NoPath
  /\ lastNav' = "login"
  /\ NewDocument
  /\ Handled(authPending[i], resp, FALSE)
  /\ UNCHANGED nauth

\* the request answers non-OK or fails: catch sets the error, finally
\* clears loading
AuthFail(i, resp) ==
  /\ GateOnly
  /\ i \in 1..Len(authPending)
  /\ ~AuthSettle(authPending[i], resp).stored
  /\ authError' = AuthSettle(authPending[i], resp).error
  /\ authLoading' = FALSE
  /\ authPending' = Without(authPending, i)
  /\ Handled(authPending[i], resp, FALSE)
  /\ UNCHANGED <<jwt, location, gatedFor, nauth, lastNav, authOrphans>>

\* a request of an unmounted page is answered: its state updates are lost,
\* its setItem and navigation are not
OrphanSettles(kind, resp) ==
  /\ GateOnly
  /\ authOrphans > 0
  /\ Handled(kind, resp, TRUE)
  /\ IF AuthSettle(kind, resp).stored
     THEN /\ jwt' = AuthSettle(kind, resp).token
          /\ location' = "/"
          /\ gatedFor' = NoPath
          /\ lastNav' = "login"
          /\ NewDocument
     ELSE /\ authOrphans' = authOrphans - 1
          /\ UNCHANGED <<jwt, location, gatedFor, lastNav, authPending, authLoading,
                         authError>>
  /\ UNCHANGED nauth

\* a page's call through lib/api.ts is answered; the requests themselves
\* are followed in the lib/api.ts section, here only what the helper does
\* to the jwt and the location counts
Redirected(status) == status = 401 /\ HasWindow
PageApiResponse(fn, status, payload) ==
  /\ GateOnly
  /\ LET s == CASE fn = "apiGet" -> apiGetSettle(status, payload)
                [] fn = "apiPost" -> apiPostSettle(status, payload)
                [] fn = "apiDelete" -> apiDeleteSettle(status, payload) IN
     /\ jwt' = s.jwt
     /\ location' = s.location
  /\ gatedFor' = IF Redirected(status) THEN NoPath ELSE gatedFor
  /\ lastNav' = IF Redirected(status) THEN "401" ELSE lastNav
  /\ IF Redirected(status) THEN NewDocument ELSE SameDocument
  /\ UNCHANGED <<nauth, lastAuth>>

NextAuth ==
  \/ AuthGate
  \/ signOut
  \/ \E p \in Routes : RouteChange(p)
  \/ \E p \in Routes : OpenAddress(p)
  \/ \E kind \in AuthKinds : AuthSubmit(kind)
  \/ \E i \in 1..MaxAuth, resp \in AuthResponses : AuthOk(i, resp)
  \/ \E i \in 1..MaxAuth, resp \in AuthResponses : AuthFail(i, resp)
  \/ \E kind \in AuthKinds, resp \in AuthResponses : OrphanSettles(kind, resp)
  \/ \E fn \in ApiHelpers, st \in Statuses, pl \in Payloads : PageApiResponse(fn, st, pl)

\* ================================================ CourseDetail: tab bar
\* strings are sequences of characters here
Materials == <<"m", "a", "t", "e", "r", "i", "a", "l", "s">>
Youtube == <<"y", "o", "u", "t", "u", "b", "e">>
Mcq == <<"m", "c", "q">>
Flashcards == <<"f", "l", "a", "s", "h", "c", "a", "r", "d", "s">>
Chat == <<"c", "h", "a", "t">>
Summary == <<"s", "u", "m", "m", "a", "r", "y">>
valid == {Materials, Youtube, Mcq, Flashcards, Chat, Summary}
NoSaved == <<>>                  \* getItem returns null / get('tab') returns null
Bogus == <<"x">>                 \* a value that names no tab
CourseIds == {"c1", "c2"}
TabParams == {NoSaved, Chat, <<"C", "h", "a", "t">>, <<"M", "C", "Q">>, Bogus}

\* String.prototype.toLowerCase, on the letters used here
LowerChar(c) ==
  CASE c = "C" -> "c" [] c = "M" -> "m" [] c = "Q" -> "q" [] OTHER -> c
toLowerCase(str) == [i \in 1..Len(str) |-> LowerChar(str[i])]

TabOnly == UNCHANGED <<authVars, apiVars, courseVars, uploadVars, eduVars, gateVars,
                       ingestVars, layoutVars, kebabVars>>

\* The page of course c1 mounts without ?tab=, nothing stored.
InitTab ==
  /\ courseId = "c1" /\ tabParam = NoSaved /\ tab = Materials
  /\ tabStore = [c \in CourseIds |-> NoSaved]
  /\ tabEffects = "mount"
  /\ savedAtOpen = NoSaved
  /\ tabClicked = FALSE

\* mutant: the saved tab is ignored
InitialTabNoSaved(param, saved) ==
  IF param # NoSaved /\ param \in valid THEN param ELSE Materials
\* the initial-tab effect (lines 52-67): the tab it sets
InitialTab(param, saved) ==
  IF param # NoSaved /\ param \in valid THEN param
  ELSE IF saved # NoSaved /\ saved \in valid THEN saved
  ELSE Materials

\* the page of a course mounts: first render with the default tab
OpenCourse(c, param) ==
  /\ TabOnly
  /\ courseId' = c
  /\ tabParam' = param
  /\ tab' = Materials
  /\ tabEffects' = "mount"
  /\ savedAtOpen' = tabStore[c]
  /\ tabClicked' = FALSE
  /\ UNCHANGED tabStore

\* the effects of the first render, in declaration order: the initial-tab
\* effect, then the persist effect (lines 68-73) with the tab of that render
MountEffects ==
  /\ TabOnly
  /\ tabEffects = "mount"
  /\ LET param == toLowerCase(tabParam)
         next == InitialTab(param, tabStore[courseId])
     IN /\ tab' = next
        /\ tabStore' = [tabStore EXCEPT ![courseId] = tab]
        /\ tabEffects' = IF next # tab THEN "persist" ELSE "none"
  /\ UNCHANGED <<courseId, tabParam, savedAtOpen, tabClicked>>

\* the persist effect after a render with a new tab
PersistTab ==
  /\ TabOnly
  /\ tabEffects = "persist"
  /\ tabStore' = [tabStore EXCEPT ![courseId] = tab]
  /\ tabEffects' = "none"
  /\ UNCHANGED <<courseId, tabParam, tab, savedAtOpen, tabClicked>>

\* localStorage is the user's: a value no version of the page wrote
ForeignStore(c) ==
  /\ TabOnly
  /\ tabEffects = "none"
  /\ tabStore[c] # Bogus /\ c # courseId
  /\ tabStore' = [tabStore EXCEPT ![c] = Bogus]
  /\ UNCHANGED <<courseId, tabParam, tab, tabEffects, savedAtOpen, tabClicked>>

\* a tab button: setTab(t.key)
ClickTab(k) ==
  /\ TabOnly
  /\ tabEffects = "none"
  /\ tab' = k
  /\ tabEffects' = IF k # tab THEN "persist" ELSE "none"
  /\ tabClicked' = TRUE
  /\ UNCHANGED <<courseId, tabParam, tabStore, savedAtOpen>>

NextTab ==
  \/ \E c \in CourseIds, param \in TabParams : OpenCourse(c, param)
  \/ MountEffects
  \/ PersistTab
  \/ \E k \in valid : ClickTab(k)
  \/ \E c \in CourseIds : ForeignStore(c)

\* ======================================= Ingestion Pipeline, Vector Index
\* The backend is not part of the sources at hand; this section follows the
\* written contract of ingest, upsert, search and delete.
Scopes == {"course-1", "course-2"}
GoodHashes == {"h1", "h2"}
Hashes == GoodHashes \cup {"h0"}          \* h0: content that cannot be extracted
NoRun == [pc |-> "idle", scope |-> "", hash |-> "", src |-> 0, result |-> ""]

\* Chunker: deterministic, so the chunk count is a function of the content
ChunkCount(hash) == IF hash = "h1" THEN 2 ELSE 1
Ordinals(hash) == 0..(ChunkCount(hash) - 1)
\* Embedding Gateway: deterministic vector of a chunk's text
Embed(hash, ordinal) == IF hash = "h1" THEN ordinal ELSE 1
\* chunk id: deterministic function of source id and position
ChunkId(src, ordinal) == <<src, ordinal>>
VectorRecord(src, ordinal) ==
  [id |-> ChunkId(src, ordinal), vector |-> Embed(sources[src].hash, ordinal),
   payload |-> [scopeId |-> sources[src].scope, sourceId |-> src, ordinal |-> ordinal]]
RecordsOf(src) == {rec \in vindex : rec.payload.sourceId = src}
Missing(src) ==
  {o \in Ordinals(sources[src].hash) : VectorRecord(src, o) \notin vindex}
\* mutant: one indexed chunk is taken for the whole set
FullyIndexedAny(src) == RecordsOf(src) # {}
FullyIndexed(src) == Missing(src) = {}

\* mutant: only a Source already ok counts as existing
ReusableOkOnly(scope, hash) ==
  {i \in 1..Len(sources) :
     sources[i].scope = scope /\ sources[i].hash = hash /\ sources[i].status = "ok"}
\* the idempotence key: the Source of (scope id, content hash) that is ok or
\* still being ingested; a failed Source is never mutated again
Reusable(scope, hash) ==
  {i \in 1..Len(sources) :
     sources[i].scope = scope /\ sources[i].hash = hash
     /\ sources[i].status \in {"ok", "pending"}}

IngestOnly == UNCHANGED <<authVars, apiVars, courseVars, uploadVars, eduVars, gateVars,
                          tabVars, layoutVars, kebabVars>>

InitIngest ==
  /\ sources = <<>> /\ chunkRows = {} /\ vindex = {}
  /\ runs = [r \in 1..MaxRuns |-> NoRun]
  /\ nruns = 0
  /\ lastSearch = [scopeFilter |-> "", topK |-> 0, matches |-> <<>>]

\* a run moves on; a finished run keeps only its outcome
SetRun(r, pc, result) ==
  runs' = [runs EXCEPT ![r] = IF pc = "done" THEN [NoRun EXCEPT !.pc = "done", !.result = result]
                                ELSE [@ EXCEPT !.pc = pc, !.result = result]]

\* the job runner delivers a job: at least once, so the same content may be
\* delivered again, while or after an earlier delivery runs
Deliver(scope, hash) ==
  /\ IngestOnly
  /\ nruns < MaxRuns
  /\ nruns' = nruns + 1
  /\ runs' = [runs EXCEPT ![nruns + 1] =
                 [pc |-> "start", scope |-> scope, hash |-> hash, src |-> 0, result |-> ""]]
  /\ UNCHANGED <<sources, chunkRows, vindex, lastSearch>>

\* ingest(source): the idempotence check and the creation of the Source row
Start(r) ==
  /\ IngestOnly
  /\ runs[r].pc = "start"
  /\ LET found == Reusable(runs[r].scope, runs[r].hash) IN
     IF found # {}
     THEN LET i == CHOOSE i \in found : TRUE IN
          /\ IF sources[i].status = "ok"
             THEN SetRun(r, "done", "ok")
             ELSE runs' = [runs EXCEPT ![r].src = i, ![r].pc = "extract"]
          /\ UNCHANGED sources
     ELSE /\ sources' = Append(sources, [scope |-> runs[r].scope, hash |-> runs[r].hash,
                                         status |-> "pending"])
          /\ runs' = [runs EXCEPT ![r].src = Len(sources) + 1, ![r].pc = "extract"]
  /\ UNCHANGED <<chunkRows, vindex, nruns, lastSearch>>

\* a pending Source becomes failed; an ok one is left alone
MarkFailed(r) ==
  IF sources[runs[r].src].status = "pending"
  THEN /\ sources' = [sources EXCEPT ![runs[r].src].status = "failed"]
       /\ SetRun(r, "rollback", "failed")
  ELSE /\ UNCHANGED sources
       /\ SetRun(r, "done", "failed")

\* extraction, normalisation and chunking; ExtractionError marks the Source failed
Extract(r) ==
  /\ IngestOnly
  /\ runs[r].pc = "extract"
  /\ IF runs[r].hash \in GoodHashes
     THEN SetRun(r, "embed", "") /\ UNCHANGED sources
     ELSE MarkFailed(r)
  /\ UNCHANGED <<chunkRows, vindex, nruns, lastSearch>>

\* embedMany answers for every batch
EmbedOk(r) ==
  /\ IngestOnly
  /\ runs[r].pc = "embed"
  /\ SetRun(r, "upsert", "")
  /\ UNCHANGED <<sources, chunkRows, vindex, nruns, lastSearch>>

\* EmbeddingGatewayError after the retries: the Source is marked failed
EmbedFail(r) ==
  /\ IngestOnly
  /\ runs[r].pc = "embed"
  /\ MarkFailed(r)
  /\ UNCHANGED <<chunkRows, vindex, nruns, lastSearch>>

\* upsert: one more record of the source reaches the index
UpsertOne(r, o) ==
  /\ IngestOnly
  /\ runs[r].pc = "upsert"
  /\ o \in Missing(runs[r].src)
  /\ vindex' = vindex \cup {VectorRecord(runs[r].src, o)}
  /\ UNCHANGED <<sources, chunkRows, runs, nruns, lastSearch>>

\* IndexUnavailableError: the whole source is retried by a later delivery
IndexUnavailable(r) ==
  /\ IngestOnly
  /\ runs[r].pc = "upsert"
  /\ SetRun(r, "done", "retry")
  /\ UNCHANGED <<sources, chunkRows, vindex, nruns, lastSearch>>

\* the upsert is complete: Chunk metadata is written to the relational store
WriteChunks(r) ==
  /\ IngestOnly
  /\ runs[r].pc = "upsert"
  /\ FullyIndexed(runs[r].src)
  /\ chunkRows' = chunkRows \cup
                    {ChunkId(runs[r].src, o) : o \in Ordinals(runs[r].hash)}
  /\ SetRun(r, "mark", "")
  /\ UNCHANGED <<sources, vindex, nruns, lastSearch>>

\* the Source's status makes its one transition, pending -> ok
MarkOk(r) ==
  /\ IngestOnly
  /\ runs[r].pc = "mark"
  /\ IF sources[runs[r].src].status = "pending"
     THEN /\ sources' = [sources EXCEPT ![runs[r].src].status = "ok"]
          /\ SetRun(r, "done", "ok")
     ELSE /\ UNCHANGED sources
          /\ SetRun(r, "done", sources[runs[r].src].status)
  /\ UNCHANGED <<chunkRows, vindex, nruns, lastSearch>>

\* a failed Source keeps no partial index: delete(collection, ids)
Rollback(r) ==
  /\ IngestOnly
  /\ runs[r].pc = "rollback"
  /\ vindex' = vindex \ RecordsOf(runs[r].src)
  /\ chunkRows' = {c \in chunkRows : c[1] # runs[r].src}
  /\ SetRun(r, "done", "failed")
  /\ UNCHANGED <<sources, nruns, lastSearch>>

\* the worker dies in the middle of a run
Crash(r) ==
  /\ IngestOnly
  /\ runs[r].pc \in {"extract", "embed", "upsert", "mark", "rollback"}
  /\ SetRun(r, "done", "crashed")
  /\ UNCHANGED <<sources, chunkRows, vindex, nruns, lastSearch>>

\* Vector Index search: the scope filter, then descending similarity, ties
\* by ascending ordinal (then by source id), cut at topK
QueryVectors == {0, 1}
TopKs == {1, 2}
Distance(a, b) == IF a >= b THEN a - b ELSE b - a
Score(queryVector, rec) == 0 - Distance(queryVector, rec.vector)
\* mutant: the filter lets every record through
InScopeAny(rec, scopeFilter) == TRUE
InScope(rec, scopeFilter) == rec.payload.scopeId = scopeFilter
Before(x, y, queryVector) ==
  \/ Score(queryVector, x) > Score(queryVector, y)
  \/ /\ Score(queryVector, x) = Score(queryVector, y)
     /\ \/ x.payload.ordinal < y.payload.ordinal
        \/ /\ x.payload.ordinal = y.payload.ordinal
           /\ x.payload.sourceId < y.payload.sourceId
RECURSIVE Ranked(_, _)
Ranked(cands, queryVector) ==
  IF cands = {} THEN <<>>
  ELSE LET best == CHOOSE x \in cands : \A y \in cands \ {x} : Before(x, y, queryVector)
       IN <<[id |-> best.id, score |-> Score(queryVector, best), payload |-> best.payload]>>
          \o Ranked(cands \ {best}, queryVector)
search(queryVector, scopeFilter, topK) ==
  LET all == Ranked({rec \in vindex : InScope(rec, scopeFilter)}, queryVector)
  IN SubSeq(all, 1, IF Len(all) < topK THEN Len(all) ELSE topK)

Search(queryVector, scopeFilter, topK) ==
  /\ IngestOnly
  /\ lastSearch' = [scopeFilter |-> scopeFilter, topK |-> topK,
                    matches |-> search(queryVector, scopeFilter, topK)]
  /\ UNCHANGED <<sources, chunkRows, vindex, runs, nruns>>

NextIngest ==
  \/ \E sc \in Scopes, h \in Hashes : Deliver(sc, h)
  \/ \E r \in 1..MaxRuns : Start(r)
  \/ \E r \in 1..MaxRuns : Extract(r)
  \/ \E r \in 1..MaxRuns : EmbedOk(r)
  \/ \E r \in 1..MaxRuns : EmbedFail(r)
  \/ \E r \in 1..MaxRuns, o \in 0..1 : UpsertOne(r, o)
  \/ \E r \in 1..MaxRuns : IndexUnavailable(r)
  \/ \E r \in 1..MaxRuns : WriteChunks(r)
  \/ \E r \in 1..MaxRuns : MarkOk(r)
  \/ \E r \in 1..MaxRuns : Rollback(r)
  \/ \E r \in 1..MaxRuns : Crash(r)
  \/ \E q \in QueryVectors, sc \in Scopes, k \in TopKs : Search(q, sc, k)

\* ================================== RootLayout: theme and sidebar effects
LayoutFiles == {"part_004", "part_005"}
NoTheme == ""                    \* SettingsPage is not mounted
NoItem == "null"                 \* localStorage.getItem returns null
Themes == {"dark", "light"}
ClassTheme(light) == IF light THEN "light" ELSE "dark"
Other(t) == IF t = "dark" THEN "light" ELSE "dark"
String(b) == IF b THEN "true" ELSE "false"
HasSidebar == layoutFile = "part_004"
HasInlineScript == layoutFile = "part_004"

Pages == (Routes \ publicPaths) \cup {"/profile", "/settings"}

LayoutOnly == UNCHANGED <<jwt, apiVars, courseVars, uploadVars, eduVars, authPending, nauth,
                          lastNav, authLoading, authError, authOrphans, lastAuth, tabVars,
                          ingestVars, kebabVars>>
SamePage == UNCHANGED <<location, gatedFor>>

\* a first visit: empty localStorage, the server-rendered document, first render
InitLayout(f) ==
  /\ layoutFile = f
  /\ theme = "dark" /\ docLight = FALSE /\ themeStore = NoItem
  /\ setAppTheme = FALSE /\ settingsTheme = NoTheme
  /\ sidebarOpen = TRUE /\ sidebarStore = NoItem
  /\ menuOpen = FALSE
  /\ layoutEffects = "mount"
  /\ lastTheme = "dark" /\ lastSidebar = TRUE /\ reloaded = FALSE

\* the theme the mount effect asks for (part_004 lines 32-40, part_005 30-33)
SavedTheme ==
  IF layoutFile = "part_004"
  THEN IF themeStore # NoItem THEN themeStore ELSE ClassTheme(docLight)
  ELSE IF themeStore # NoItem THEN themeStore ELSE theme

\* the sidebar sync effect (lines 115-120), given what 'sidebarOpen' holds
SyncedSidebar(stored) ==
  IF stored # NoItem THEN stored = "true" ELSE sidebarOpen

\* the document is loaded again: the inline script of part_004 sets the
\* class from the stored theme, every component renders with its defaults
LoadDocument(p) ==
  /\ LayoutOnly
  /\ layoutEffects = "none"
  /\ location' = p
  /\ gatedFor' = NoPath
  /\ docLight' = (HasInlineScript /\ themeStore = "light")
  /\ theme' = "dark"
  /\ sidebarOpen' = TRUE
  /\ menuOpen' = FALSE
  /\ setAppTheme' = FALSE
  /\ settingsTheme' = IF p = "/settings" THEN ClassTheme(docLight') ELSE NoTheme
  /\ layoutEffects' = "mount"
  /\ reloaded' = TRUE
  /\ UNCHANGED <<layoutFile, themeStore, sidebarStore, lastTheme, lastSidebar>>

\* the effects of the first commit, children first and then in declaration
\* order: SettingsPage's effect, the theme mount effect, the [theme] effect,
\* the sidebar persist effect, the sidebar sync effect
LayoutMountEffects ==
  /\ LayoutOnly
  /\ layoutEffects = "mount"
  /\ settingsTheme' = IF settingsTheme # NoTheme THEN ClassTheme(docLight) ELSE NoTheme
  /\ theme' = SavedTheme
  /\ docLight' = (theme = "light")
  /\ themeStore' = theme
  /\ setAppTheme' = TRUE
  /\ IF HasSidebar
     THEN /\ sidebarStore' = String(sidebarOpen)
          /\ sidebarOpen' = SyncedSidebar(sidebarStore')
     ELSE UNCHANGED <<sidebarOpen, sidebarStore>>
  /\ layoutEffects' = IF theme' # theme \/ sidebarOpen' # sidebarOpen
                      THEN "rerender" ELSE "none"
  /\ SamePage
  /\ UNCHANGED <<layoutFile, menuOpen, lastTheme, lastSidebar, reloaded>>

\* the [theme] effect and the sidebar persist effect after the re-render
LayoutRerenderEffects ==
  /\ LayoutOnly
  /\ layoutEffects = "rerender"
  /\ docLight' = (theme = "light")
  /\ themeStore' = theme
  /\ sidebarStore' = IF HasSidebar THEN String(sidebarOpen) ELSE sidebarStore
  /\ layoutEffects' = "none"
  /\ SamePage
  /\ UNCHANGED <<layoutFile, theme, setAppTheme, settingsTheme, sidebarOpen, menuOpen,
                 lastTheme, lastSidebar, reloaded>>

\* the sidebar button: setSidebarOpen(v => !v), then the persist effect
ToggleSidebar ==
  /\ LayoutOnly
  /\ HasSidebar
  /\ layoutEffects = "none"
  /\ sidebarOpen' = ~sidebarOpen
  /\ sidebarStore' = String(sidebarOpen')
  /\ lastSidebar' = sidebarOpen'
  /\ reloaded' = FALSE
  /\ SamePage
  /\ UNCHANGED <<layoutFile, theme, docLight, themeStore, setAppTheme, settingsTheme,
                 menuOpen, layoutEffects, lastTheme>>

\* SettingsPage.toggleTheme, then the layout's [theme] effect
toggleTheme ==
  /\ LayoutOnly
  /\ settingsTheme # NoTheme
  /\ layoutEffects = "none"
  /\ settingsTheme' = Other(settingsTheme)
  /\ theme' = IF setAppTheme THEN settingsTheme' ELSE theme
  /\ docLight' = (theme' = "light")
  /\ themeStore' = theme'
  /\ lastTheme' = settingsTheme'
  /\ reloaded' = FALSE
  /\ SamePage
  /\ UNCHANGED <<layoutFile, setAppTheme, sidebarOpen, sidebarStore, menuOpen,
                 layoutEffects, lastSidebar>>

\* the avatar button: setMenuOpen(v => !v)
ToggleMenu ==
  /\ LayoutOnly
  /\ layoutEffects = "none"
  /\ menuOpen' = ~menuOpen
  /\ SamePage
  /\ UNCHANGED <<layoutFile, theme, docLight, themeStore, setAppTheme, settingsTheme,
                 sidebarOpen, sidebarStore, layoutEffects, lastTheme, lastSidebar, reloaded>>

\* a Link of the user menu (Profile, Settings) or of the sidebar: the page
\* under the layout changes, SettingsPage mounts or unmounts
FollowLink(p) ==
  /\ LayoutOnly
  /\ layoutEffects = "none"
  /\ p # location
  /\ p \in {"/profile", "/settings"} => menuOpen
  /\ location' = p
  /\ settingsTheme' = IF p = "/settings" THEN ClassTheme(docLight) ELSE NoTheme
  /\ UNCHANGED <<gatedFor, layoutFile, theme, docLight, themeStore, setAppTheme, sidebarOpen,
                 sidebarStore, menuOpen, layoutEffects, lastTheme, lastSidebar, reloaded>>

NextLayout ==
  \/ \E p \in Pages : LoadDocument(p)
  \/ LayoutMountEffects
  \/ LayoutRerenderEffects
  \/ ToggleSidebar
  \/ toggleTheme
  \/ ToggleMenu
  \/ \E p \in Pages : FollowLink(p)

\* ============================================================ KebabMenu
\* frontend/components/KebabMenu.tsx: the menu is drawn in a portal at a fixed
\* position computed from the anchor button's rectangle and the window size.
menuW == 192       \* w-48
gap == 8

\* the window sizes and anchor rectangles the model draws from (CSS pixels)
InnerWidths == {100, 200, 207, 208, 300, 400}
InnerHeights == {100, 300}
Rights == {0 - 10, 100, 199, 200, 250, 392, 500}
Bottoms == {20, 92, 290, 400}
Rects == [right : Rights, bottom : Bottoms]

NoPos == <<>>      \* pos === null
Min(a, b) == IF a <= b THEN a ELSE b
Max(a, b) == IF a >= b THEN a ELSE b

KebabOnly == UNCHANGED <<authVars, apiVars, courseVars, uploadVars, eduVars, gateVars,
                         tabVars, ingestVars, layoutVars>>

\* the same position without the clamp on left
computePosUnclamped(rc, iw, ih) ==
  [top |-> Min(ih - 8, rc.bottom + gap), left |-> rc.right - menuW]

\* computePos(): under the anchor, aligned to its right edge, clamped
computePos(rc, iw, ih) ==
  LET maxLeft == iw - menuW - 8
      desiredLeft == rc.right - menuW
      left == Max(8, Min(maxLeft, desiredLeft))
      top == Min(ih - 8, rc.bottom + gap)
  IN [top |-> top, left |-> left]

InitKebab ==
  /\ kebabOpen = FALSE /\ pos = NoPos
  /\ rect = [right |-> 250, bottom |-> 20]
  /\ innerWidth = 400 /\ innerHeight = 300

\* the effect on [open]: position the menu when it opens; while the menu is
\* closed no listener is registered and pos keeps its last value
Positioned(o, rc, iw, ih) ==
  pos' = IF o THEN <<computePos(rc, iw, ih)>> ELSE pos

\* the button's onClick: setOpen(v => !v), then the [open] effect
ToggleKebab ==
  /\ kebabOpen' = ~kebabOpen
  /\ Positioned(kebabOpen', rect, innerWidth, innerHeight)
  /\ UNCHANGED <<rect, innerWidth, innerHeight>>
  /\ KebabOnly

\* window 'resize': onWin recomputes the position while the menu is open
Resize(iw, ih) ==
  /\ <<iw, ih>> # <<innerWidth, innerHeight>>
  /\ innerWidth' = iw /\ innerHeight' = ih
  /\ Positioned(kebabOpen, rect, iw, ih)
  /\ UNCHANGED <<kebabOpen, rect>>
  /\ KebabOnly

\* 'scroll' (captured): the anchor's rectangle moves, onWin recomputes
Scroll(rc) ==
  /\ rc # rect
  /\ rect' = rc
  /\ Positioned(kebabOpen, rc, innerWidth, innerHeight)
  /\ UNCHANGED <<kebabOpen, innerWidth, innerHeight>>
  /\ KebabOnly

\* document 'mousedown' outside the anchor and the portal: onDoc
OutsideClick ==
  /\ kebabOpen' = FALSE
  /\ UNCHANGED <<pos, rect, innerWidth, innerHeight>>
  /\ KebabOnly

\* a click inside the drawn menu: onClick={()=>setOpen(false)}
MenuClick ==
  /\ kebabOpen /\ pos # NoPos
  /\ kebabOpen' = FALSE
  /\ UNCHANGED <<pos, rect, innerWidth, innerHeight>>
  /\ KebabOnly

NextKebab ==
  \/ ToggleKebab
  \/ \E iw \in InnerWidths, ih \in InnerHeights : Resize(iw, ih)
  \/ \E rc \in Rects : Scroll(rc)
  \/ OutsideClick
  \/ MenuClick

\* ====================================================== specifications
InitRest == InitGate /\ InitTab /\ InitIngest /\ InitKebab

\* A signed-in learner on a freshly mounted page, nothing stored for Edu Chat.
Init ==
  /\ jwt = "t1" /\ location = "/"
  /\ InitApi /\ InitCourse /\ InitUpload /\ InitEdu /\ InitRest /\ InitLayout("part_004")
\* The same, with any stored jwt or none.
InitAnyJwt ==
  /\ jwt \in {NoJwt} \cup Tokens /\ location = "/"
  /\ InitApi /\ InitCourse /\ InitUpload /\ InitEdu /\ InitRest /\ InitLayout("part_004")
\* A visitor opening any address, signed in or not.
InitVisitor ==
  /\ jwt \in {NoJwt} \cup Tokens /\ location \in Routes
  /\ InitApi /\ InitCourse /\ InitUpload /\ InitEdu /\ InitRest /\ InitLayout("part_004")
\* A first visit, with either of the two layout sources built.
InitAnyLayout ==
  /\ jwt = "t1" /\ location = "/"
  /\ InitApi /\ InitCourse /\ InitUpload /\ InitEdu /\ InitRest
  /\ \E f \in LayoutFiles : InitLayout(f)

SpecEduChat == Init /\ [][NextEdu]_vars
SpecApi == InitAnyJwt /\ [][NextApi]_vars
SpecCourseChat == Init /\ [][NextCourse]_vars
\* every request the browser sends is answered or fails
SpecCourseChatFair == SpecCourseChat /\ WF_vars(AskSettles)
SpecUpload == Init /\ [][NextUpload]_vars
SpecAuth == InitVisitor /\ [][NextAuth]_vars
SpecTab == Init /\ [][NextTab]_vars
SpecIngest == Init /\ [][NextIngest]_vars
SpecLayout == InitAnyLayout /\ [][NextLayout]_vars
SpecKebab == Init /\ [][NextKebab]_vars

\* ============================================================== claims
\* the messages localStorage 'edu_chats' holds for conversation id
StoredMessages(id) ==
  LET S == {i \in 1..Len(store) : store[i].id = id}
  IN IF S = {} THEN <<>> ELSE store[CHOOSE i \in S : TRUE].messages

RECURSIVE ReceiveAll(_, _)
\* the history after the read loop has applied the fragments in order
ReceiveAll(h, fragments) ==
  IF fragments = <<>> THEN h
  ELSE ReceiveAll(IF Head(fragments) # <<>> THEN AppendLastAssistant(h, Head(fragments)) ELSE h,
                  Tail(fragments))

\* C1: once stop() has cancelled an in-flight answer, and until the next
\* request is started, no step changes the displayed conversation's
\* messages (steps that display another conversation aside).
C1_NoTextAfterStop ==
  [][(stopped /\ nreq' = nreq /\ currentId' = currentId) => history' = history]_vars

\* C2: no persisted assistant message holds the partial text of a cancelled
\* stream in a form that cannot be told from a completed answer, i.e. as the
\* bare {role, content} record with exactly that text.
C2_CancelledTextNotStoredAsComplete ==
  \A g \in cancelledMsg :
    g.text # <<>> =>
      ~(/\ g.idx <= Len(StoredMessages(g.chat))
        /\ StoredMessages(g.chat)[g.idx] = AssistantMsg(g.text))

\* C3: when the read loop of a request ends on the end-of-stream signal, the
\* history is the sent messages followed by one assistant message holding the
\* fragments received, in order, and the stored conversation holds the same.
C3_CompletedStreamIsConcatenation ==
  [][\A r \in 1..MaxReq :
       (rpc[r] = "read" /\ rpc'[r] = "done") =>
         /\ history' = rmsgs[r] \o <<AssistantMsg(rtext[r])>>
         /\ StoredMessages(currentId)' = history']_vars

\* C4: when the blocking fallback call of a request returns, exactly one such
\* call was made, loading is false, and the history is the one a completed
\* stream of the same answer sent with the same messages ends with.
C4_FallbackEqualsCompletedStream ==
  [][\A r \in 1..MaxReq :
       (rpc[r] = "fallback" /\ rpc'[r] = "done") =>
         /\ rfb[r] = 1
         /\ ~loading'
         /\ history' = ReceiveAll(rmsgs[r] \o <<Placeholder>>, <<rtext'[r]>>)
         /\ history' = rmsgs[r] \o <<AssistantMsg(rtext'[r])>>]_vars

\* C5: at most one answer request is in flight, and the last assistant message
\* never holds text written by two different requests.
C5_SingleFlight == Cardinality(InFlight) <= 1 /\ Cardinality(writers) <= 1

\* C6: when the upload loop has ended, every file of the batch was attempted.
C6_EveryFileAttempted ==
  (nbatches > 0 /\ upIdx = 0) => attempted = 1..Len(batch)

\* the entries without their open flag
Pairs(h) == [i \in 1..Len(h) |-> [id |-> h[i].id, q |-> h[i].q, a |-> h[i].a]]
RECURSIVE WithoutId(_, _)
WithoutId(ps, id) ==
  IF ps = <<>> THEN <<>>
  ELSE (IF Head(ps).id = id THEN <<>> ELSE <<Head(ps)>>) \o WithoutId(Tail(ps), id)
AskSettling == askPending # <<>> /\ askPending' = <<>>
Deleting(id) == id \in delPending /\ id \notin delPending'
Reloading == fetchPending' < fetchPending
ErrMessages == Payloads \cup {"Unauthorized", "Failed to fetch"}
\* an entry is created at the top, by the settling /rag/chat call, for its question
CreatedByAsk ==
  /\ AskSettling
  /\ \E a \in Answers \cup {ErrPrefix \o <<m>> : m \in ErrMessages} :
       Pairs(cHistory') = <<[id |-> NoEntryId, q |-> askPending[1].q, a |-> a]>>
                          \o Pairs(cHistory)
\* the entries keep their texts and ids
TextsKept ==
  \A i \in 1..Len(cHistory), j \in 1..Len(cHistory') :
    (cHistory[i].id # NoEntryId /\ cHistory[i].id = cHistory'[j].id) =>
      (cHistory[i].q = cHistory'[j].q /\ cHistory[i].a = cHistory'[j].a)

C8_EveryQuestionGetsAResponse ==
  /\ [][AskSettling =>
          /\ CreatedByAsk
          /\ cHistory'[1].open /\ 1 <= Visible
          /\ ~cLoading']_vars
  /\ [][(askPending = <<>> /\ askPending' # <<>>) =>
          (Trim(askPending'[1].q) # <<>> /\ cLoading')]_vars
  /\ ((askPending # <<>>) ~> (askPending = <<>> /\ ~cLoading))
\* a failed question has its error entry on top
C8_Witness ==
  /\ askPending = <<>> /\ ~cLoading /\ nasks > 0
  /\ cHistory # <<>> /\ cHistory[1].q = <<"q">>
  /\ cHistory[1].a = ErrPrefix \o <<"Unauthorized">>

\* C9: a helper that receives 401 clears the jwt, sets the location to /login
\* and rejects with 'Unauthorized'; one that receives another non-OK status
\* rejects with the response text and leaves jwt and location as they were.
C9_UnauthorizedClearsJwt ==
  [][apiOut'.id # apiOut.id =>
       /\ apiOut'.status = 401 =>
            /\ jwt' = NoJwt /\ location' = "/login"
            /\ apiOut'.kind = "rejected" /\ apiOut'.value = "Unauthorized"
       /\ (apiOut'.status \in Statuses \ {401} /\ ~Ok(apiOut'.status)) =>
            /\ jwt' = jwt /\ location' = location
            /\ apiOut'.kind = "rejected" /\ apiOut'.value = apiOut'.payload]_vars
\* a 401 has just cleared a stored jwt
C9_Witness ==
  /\ apiOut.status = 401 /\ apiOut.jwtBefore # NoJwt
  /\ jwt = NoJwt /\ location = "/login"

RequestHeaders(req) == IF "headers" \in DOMAIN req.init THEN req.init["headers"] ELSE EmptyObj
\* C10: every request made through a helper carries Authorization: Bearer
\* <the jwt stored when it was made>, and none when no jwt is stored.
C10_BearerAlwaysAttached ==
  \A c \in net :
    LET h == RequestHeaders(c.req) IN
    IF c.jwtAtCall # NoJwt
    THEN "Authorization" \in DOMAIN h /\ h["Authorization"] = Bearer(c.jwtAtCall)
    ELSE "Authorization" \notin DOMAIN h
\* C11: once the auth gate has run for the current pathname, a visitor
\* without a stored jwt is on /login or /signup and a visitor with a stored
\* jwt is on neither.
GateHasRun == gatedFor = location
C11_AuthGate ==
  GateHasRun => (jwt = NoJwt <=> location \in publicPaths)
\* a 401 through lib/api.ts sent the visitor to /login and the gate has run there
C11_Witness ==
  /\ GateHasRun /\ jwt = NoJwt /\ location = "/login"
  /\ lastNav = "401"

\* C12: the stored 'edu_chats' always equals the in-memory conversation
\* list, whose current conversation holds the displayed history, the stored
\* current id is the current id, and a reload restores the same list, the
\* same current conversation and the same messages.
CurrentChatIsHistory ==
  \E i \in 1..Len(chats) : chats[i].id = currentId /\ chats[i].messages = history
C12_PersistsAcrossReload ==
  /\ [](store = Stringify(chats) /\ storeCur = currentId /\ CurrentChatIsHistory)
  /\ [][Reload => (chats' = chats /\ currentId' = currentId /\ history' = history)]_vars
\* after a reload: two conversations, one renamed, the current one with an answer
C12_Witness ==
  /\ nreq > 0 /\ abortRef = NoId
  /\ Len(chats) = 2 /\ \E i \in 1..Len(chats) : chats[i].name = "n"
  /\ \E i \in 1..Len(history) : history[i] = AssistantMsg(<<"A">>)

\* C13 (as stated): once the effects have settled after opening a course
\* page, the selected tab is the ?tab= value when that value is one of the
\* six tabs, otherwise the saved tab when valid, otherwise 'materials'; and
\* whenever effects have settled the stored tab equals the selected tab.
TabSettled == tabEffects = "none"
ExpectedTab(param, saved) ==
  CASE param \in valid -> param
    [] param \notin valid /\ saved \in valid -> saved
    [] OTHER -> Materials
C13_InitialTab ==
  TabSettled =>
    /\ tabStore[courseId] = tab
    /\ ~tabClicked => tab = ExpectedTab(tabParam, savedAtOpen)
\* C13 (amended): the ?tab= value is compared after lower-casing it.
C13_InitialTabLowerCased ==
  TabSettled =>
    /\ tabStore[courseId] = tab
    /\ ~tabClicked => tab = ExpectedTab(toLowerCase(tabParam), savedAtOpen)
\* a page opened with ?tab=MCQ over a saved 'chat' has settled on mcq
C13_Witness ==
  /\ TabSettled /\ ~tabClicked
  /\ tabParam = <<"M", "C", "Q">> /\ savedAtOpen = Chat
  /\ tab = Mcq /\ tabStore[courseId] = Mcq

\* C14: for every (scope id, content hash) at most one Source is ok, however
\* often and however interleaved the content is ingested, crashes included;
\* an ok Source has exactly its chunk rows and exactly its vector records,
\* each once; and content whose (scope, hash) has no Source yet gets a new one.
OkSources == {i \in 1..Len(sources) : sources[i].status = "ok"}
SameContent(i, j) ==
  sources[i].scope = sources[j].scope /\ sources[i].hash = sources[j].hash
ExactlyOneSet(i) ==
  /\ {c \in chunkRows : c[1] = i} = {<<i, o>> : o \in 0..(ChunkCount(sources[i].hash) - 1)}
  /\ {rec.id : rec \in {x \in vindex : x.payload.sourceId = i}}
       = {<<i, o>> : o \in 0..(ChunkCount(sources[i].hash) - 1)}
  /\ Cardinality({x \in vindex : x.payload.sourceId = i}) = ChunkCount(sources[i].hash)
NewContentNewSource ==
  \A r \in 1..MaxRuns :
    (/\ runs[r].pc = "start" /\ runs'[r].pc # "start"
     /\ \A i \in 1..Len(sources) :
          sources[i].scope # runs[r].scope \/ sources[i].hash # runs[r].hash)
    => /\ Len(sources') = Len(sources) + 1
       /\ sources'[Len(sources')] =
            [scope |-> runs[r].scope, hash |-> runs[r].hash, status |-> "pending"]
C14_IdempotentIngestion ==
  /\ [](\A i \in OkSources : ExactlyOneSet(i) /\ \A j \in OkSources : SameContent(i, j) => i = j)
  /\ [][NewContentNewSource]_vars
\* a delivery crashed, the content was delivered again and its one Source is ok
C14_Witness ==
  /\ runs[1].result = "crashed" /\ runs[2].result = "ok"
  /\ Len(sources) = 1 /\ OkSources = {1} /\ sources[1].hash = "h1"

\* C15: a Source in status ok has the vector record of every one of its chunks.
C15_OkImpliesFullyIndexed ==
  \A i \in 1..Len(sources) :
    sources[i].status = "ok" =>
      \A o \in 0..(ChunkCount(sources[i].hash) - 1) :
        \E rec \in vindex : rec.id = <<i, o>> /\ rec.payload.sourceId = i
\* the index became unavailable mid-upsert; the retry completed the two-chunk source
C15_Witness ==
  /\ runs[1].result = "retry" /\ runs[2].result = "ok"
  /\ Len(sources) = 1 /\ sources[1].status = "ok" /\ sources[1].hash = "h1"

\* C16: every match of a search carries the scope id of its scope filter.
C16_SearchStaysInScope ==
  \A m \in Range(lastSearch.matches) : m.payload.scopeId = lastSearch.scopeFilter
\* the index holds records of two scopes and the search returned a match
C16_Witness ==
  /\ \E x \in vindex, y \in vindex : x.payload.scopeId # y.payload.scopeId
  /\ lastSearch.matches # <<>>

\* C17: at most one entry of the course chat history is open.
C17_AtMostOneOpen ==
  Cardinality({i \in 1..Len(cHistory) : cHistory[i].open}) <= 1

\* C18: after a reload, once the mount effects have run, the sidebar state
\* and the stored 'sidebarOpen' equal the state the user last left.
LayoutSettled == layoutEffects = "none"
C18_SidebarPersists ==
  (HasSidebar /\ reloaded /\ LayoutSettled) =>
    (sidebarOpen = lastSidebar /\ sidebarStore = String(lastSidebar))

\* C19: once effects have run, the layout's theme, the 'light' class, the
\* stored theme and the Settings page's theme agree, and they are the theme
\* last chosen, reloads included.
C19_ThemeConsistent ==
  LayoutSettled =>
    /\ theme = lastTheme
    /\ docLight = (theme = "light")
    /\ themeStore = theme
    /\ settingsTheme # NoTheme => settingsTheme = theme

\* the menu is drawn: open && pos
MenuDrawn == kebabOpen /\ pos # NoPos
\* the right-aligned position of the drawn menu, rect.right - 192
DesiredLeft == rect.right - 192
\* the drawn menu is where its anchor and window now are, top within the viewport
KebabPlaced ==
  MenuDrawn =>
    /\ pos[1].top = Min(innerHeight - 8, rect.bottom + 8)
    /\ pos[1].top <= innerHeight - 8
    /\ (8 <= DesiredLeft /\ DesiredLeft + 192 <= innerWidth - 8) => pos[1].left = DesiredLeft

\* C20 as stated: for every anchor rectangle and window size the drawn menu has
\* 8 <= left, left + 192 <= innerWidth - 8 and top <= innerHeight - 8, and the
\* right-aligned position rect.right - 192 is kept when it is within these bounds.
C20_ClampedAlways ==
  /\ KebabPlaced
  /\ MenuDrawn => (8 <= pos[1].left /\ pos[1].left + 192 <= innerWidth - 8)

\* C20, amended: 8 <= left and top <= innerHeight - 8 always hold and the
\* right-aligned position is kept when within bounds; left + 192 <= innerWidth - 8
\* holds when the window is at least 208 wide, and in a narrower window left is 8.
C20_ClampedWhenWideEnough ==
  /\ KebabPlaced
  /\ MenuDrawn =>
       /\ 8 <= pos[1].left
       /\ innerWidth >= 208 => pos[1].left + 192 <= innerWidth - 8
       /\ innerWidth < 208 => pos[1].left = 8

\* the menu is drawn for an anchor whose right-aligned position overflows the
\* right edge of a window wide enough to hold the menu, after a resize or scroll
C20_Witness ==
  /\ MenuDrawn
  /\ innerWidth >= 208
  /\ DesiredLeft > innerWidth - 200
  /\ pos[1].left = innerWidth - 200
  /\ rect # [right |-> 250, bottom |-> 20]

\* a question is submitted in edit mode: ask() with editingIndex set starts an
\* answer request (regenerate and continueAnswer leave editingIndex as it is)
EditSubmit == editingIndex # NoIndex /\ editingIndex' = NoIndex /\ nreq' = nreq + 1
\* h with its last user message's content replaced by q and the assistant
\* answer directly after it removed
EditedLast(h, q) ==
  LET k == LastIndexOf(h, "user")
      keep == {i \in 1..Len(h) : ~(i = k + 1 /\ h[i].role = "assistant")}
  IN SelectIdx([h EXCEPT ![k] = UserMsg(q)], keep, 1)

\* C21: whenever a question is submitted in edit mode, the message list sent
\* is the history with the last user message's content replaced by the new
\* text and the assistant answer directly after it removed, every other
\* message kept in its order; the submission clears edit mode.
C21_EditActsOnLastUser ==
  [][EditSubmit =>
       /\ lastUserIndex # NoIndex
       /\ \E x \in Questions :
            /\ Trim(x) # <<>>
            /\ rmsgs'[nreq'] = EditedLast(history, Trim(x))]_vars

\* a login / signup / Google handler has dealt with its response in this step
AuthHandled == lastAuth'.n = lastAuth.n + 1
\* that response was an OK response of the auth endpoint
AnsweredOk == lastAuth'.resp.net /\ lastAuth'.resp.ok

\* C22: a jwt is written to storage only when an OK response of the auth
\* endpoint is handled, and the value written is the token of that response;
\* when a non-OK response or a network error is handled nothing is stored and
\* no navigation happens, and the page that sent the request shows an error
\* message; whenever a response is handled the loading flag of the page that
\* sent the request is false afterwards (a page unmounted since has no flag).
C22_JwtOnlyAfterOk ==
  /\ [][(jwt' # jwt /\ jwt' # NoJwt) =>
          (AuthHandled /\ AnsweredOk /\ jwt' = lastAuth'.resp.token)]_vars
  /\ [][(AuthHandled /\ ~AnsweredOk) =>
          /\ jwt' = jwt /\ location' = location /\ lastNav' = lastNav
          /\ ~lastAuth'.orphan => authError' # NoError]_vars
  /\ [][(AuthHandled /\ ~lastAuth'.orphan) => authLoading' = FALSE]_vars

\* after a failed attempt whose message is still shown, a second request of
\* the same page was answered OK: its token is stored and the browser is home
C22_Witness ==
  /\ lastAuth.n = 2 /\ ~lastAuth.orphan
  /\ lastAuth.resp.net /\ lastAuth.resp.ok
  /\ lastAuth.errBefore # NoError
  /\ jwt = lastAuth.resp.token
  /\ location = "/" /\ lastNav = "login"


====
